---- MODULE Spec2Model ----
(***************************************************************************)
(* Event-driven backtesting engine: the bar feed (data_handler.py), the    *)
(* event queue and driver loop (backtest.py, demo.py), the pairs-trading   *)
(* signal generator (strategy.py), the portfolio ledger (portfolio.py) and *)
(* the simulated execution handler (execution.py).                         *)
(*                                                                         *)
(* Prices and cash are whole currency units (the code uses floats; the     *)
(* model does exact integer arithmetic).  A Python dict is a function      *)
(* whose DOMAIN is its key set; a pandas row is [dt, Close], dt being the  *)
(* row's index label (.name).                                              *)
(*                                                                         *)
(* The price series are an input.  The rows of symbol_data that the bar    *)
(* generator has not reached yet are read by no handler (the generator     *)
(* reads the row at its position, _get_recent_data slices up to the        *)
(* current date), so the model draws every row, and the end of the series, *)
(* when the generator reaches it: symbol_data holds the rows up to the     *)
(* generator's position.                                                   *)
(***************************************************************************)
EXTENDS Integers, Sequences, FiniteSets, TLC

\* ---------------------------------------------------------------- bounds
\* Longest reference series.
MaxBars == 7
\* Lookback window of the strategy (a constructor parameter, default 100).
Lookback == 6
\* The closes a series takes.  Over one run one of the two symbols moves
\* over Closes while the other stays at FlatClose; at a date where the
\* second symbol has no bar the first is at FlatClose.
Closes == {10, 11, 13}
FlatClose == CHOOSE c \in Closes : \A d \in Closes : c <= d
BarChoices ==
  {[c1 |-> c, c2 |-> FlatClose, has2 |-> TRUE] : c \in Closes}
    \cup {[c1 |-> FlatClose, c2 |-> c, has2 |-> TRUE] : c \in Closes}
    \cup {[c1 |-> FlatClose, c2 |-> FlatClose, has2 |-> FALSE]}

\* The portfolio harness: how many signals it injects, and the strengths
\* they carry, in thousandths (0.005, 0.25, 0.5, 1.0: values whose product
\* with 100 the float arithmetic of the code computes exactly).
MaxSignals == 3
Strengths == {5, 250, 500, 1000}

\* ------------------------------------------------------- configuration
symbol_list == <<"AAPL", "MSFT">>
Symbols == {symbol_list[i] : i \in 1..Len(symbol_list)}
initial_capital == 100000
\* SignalEvent.strength is a float in (0,1]; the model counts thousandths.
StrengthUnit == 1000
DefaultStrength == 1000
\* execute_order's flat commission (1.0).
Commission == 1
\* _generate_order's base quantity (100 * strength).
BaseQuantity == 100
\* The z-score thresholds 2.0 and 0.5, counted in halves.
EntryZ == 4
ExitZ == 1

VARIABLES
  symbol_data,         \* DataHandler.symbol_data: symbol -> rows so far
  latest_symbol_data,  \* DataHandler.latest_symbol_data: dict symbol -> row
  continue_backtest,   \* DataHandler.continue_backtest
  events,              \* the queue.Queue shared by all components
  event,               \* the driver loop's local: the event it got last
  invested,            \* PairsTradingStrategy.invested
  pvalue,              \* calculate_signals' local: "none" | "lt" | "ge" 0.05
  current_positions,   \* Portfolio.current_positions
  current_holdings,    \* Portfolio.current_holdings
  all_positions,       \* Portfolio.all_positions
  all_holdings,        \* Portfolio.all_holdings
  pc,                  \* driver loop position
  puts,                \* history: every event ever put, in put order
  calls                \* history: every handler invocation, in call order

vars == <<symbol_data, latest_symbol_data, continue_backtest, events, event,
          invested, pvalue, current_positions, current_holdings,
          all_positions, all_holdings, pc, puts, calls>>

feed == <<symbol_data, latest_symbol_data, continue_backtest>>
ledger == <<current_positions, current_holdings>>
snapshots == <<all_positions, all_holdings>>

\* ---------------------------------------------------------------- helpers
RECURSIVE SumSeq(_)
SumSeq(s) == IF s = <<>> THEN 0 ELSE Head(s) + SumSeq(Tail(s))

Abs(x) == IF x < 0 THEN -x ELSE x

Max(a, b) == IF a > b THEN a ELSE b

\* ----------------------------------------------------------------- events
MarketEvent == [type |-> "MARKET"]

\* The driver's event variable before the first get.
NoEvent == [type |-> "NONE"]

SignalEvent(symbol, datetime, signal_type) ==
  [type |-> "SIGNAL", symbol |-> symbol, datetime |-> datetime,
   signal_type |-> signal_type, strength |-> DefaultStrength]

\* SignalEvent with its strength argument given.
SignalEventWithStrength(symbol, datetime, signal_type, strength) ==
  [SignalEvent(symbol, datetime, signal_type) EXCEPT !.strength = strength]

OrderEvent(symbol, order_type, quantity, direction) ==
  [type |-> "ORDER", symbol |-> symbol, order_type |-> order_type,
   quantity |-> quantity, direction |-> direction]

FillEvent(timeindex, symbol, exchange, quantity, direction, fill_cost, commission) ==
  [type |-> "FILL", timeindex |-> timeindex, symbol |-> symbol,
   exchange |-> exchange, quantity |-> quantity, direction |-> direction,
   fill_cost |-> fill_cost, commission |-> commission]

\* ------------------------------------------------------------------ queue
\* queue.Queue: put appends, get(block=False) takes the oldest item and
\* raises Empty on an empty queue.
QueuePut(q, e) == Append(q, e)

QueueGet(q) == [item |-> Head(q), rest |-> Tail(q)]

QueueEmptyEarly(q) == Len(q) <= 1

QueueEmptyButOrders(q) == \A i \in 1..Len(q) : q[i].type = "ORDER"

QueueEmptyButFills(q) == \A i \in 1..Len(q) : q[i].type = "FILL"

QueueEmpty(q) == q = <<>>

\* The if/elif chain of the driver loop on event.type.
DispatchSwapped(ev) ==
  IF ev.type = "MARKET" THEN "market"
  ELSE IF ev.type = "SIGNAL" THEN "signal"
  ELSE IF ev.type = "ORDER" THEN "fill"
  ELSE IF ev.type = "FILL" THEN "order"
  ELSE "none"

Dispatch(ev) ==
  IF ev.type = "MARKET" THEN "market"
  ELSE IF ev.type = "SIGNAL" THEN "signal"
  ELSE IF ev.type = "ORDER" THEN "order"
  ELSE IF ev.type = "FILL" THEN "fill"
  ELSE "none"

\* --------------------------------------------------------------- bar feed
Row(dt, close) == [dt |-> dt, Close |-> close]

\* A series that has stayed at FlatClose.
Flat(rows) == \A i \in 1..Len(rows) : rows[i].Close = FlatClose

\* DataHandler.__init__, PairsTradingStrategy.__init__, Portfolio.__init__.
ConstructInitialHoldings ==
  ("total" :> initial_capital) @@ ("commission" :> 0) @@
  ("cash" :> initial_capital) @@ [s \in Symbols |-> 0]

Init ==
  /\ symbol_data = [s \in Symbols |-> <<>>]
  /\ latest_symbol_data = <<>>
  /\ continue_backtest = TRUE
  /\ events = <<>>
  /\ event = NoEvent
  /\ invested = FALSE
  /\ pvalue = "none"
  /\ current_positions = [s \in Symbols |-> 0]
  /\ current_holdings = ConstructInitialHoldings
  /\ all_positions = <<[s \in Symbols |-> 0]>>
  /\ all_holdings = <<ConstructInitialHoldings>>
  /\ pc = "drain"
  /\ puts = <<>>
  /\ calls = <<>>

\* The dict update_bars keeps of a yielded bar: the symbols whose row is
\* not None.
LatestBarsZeroFilled(present, dt, close) ==
  [s \in Symbols |-> IF s \in present THEN Row(dt, close[s]) ELSE Row(dt, 0)]

LatestBars(present, dt, close) == [s \in present |-> Row(dt, close[s])]

\* The value update_bars gives continue_backtest on StopIteration.
ContinueAfterStopIterationTrue == TRUE

ContinueAfterStopIteration == FALSE

\* The outer loop's step: the inner loop has found the queue empty, the
\* feed still continues, update_bars runs.  The generator yields the next
\* row of the reference symbol with the row of every other symbol at that
\* date (None when it has none), or raises StopIteration.
UpdateBars ==
  /\ pc = "drain"
  /\ QueueEmpty(events)
  /\ continue_backtest
  /\ \/ /\ Len(symbol_data[symbol_list[1]]) < MaxBars
        /\ \E bar \in BarChoices :
             LET dt == Len(symbol_data[symbol_list[1]]) + 1
                 present == IF bar.has2 THEN Symbols ELSE {symbol_list[1]}
                 close == [s \in Symbols |->
                             IF s = symbol_list[1] THEN bar.c1 ELSE bar.c2]
                 rows == [s \in Symbols |->
                            IF s \in present
                              THEN Append(symbol_data[s], Row(dt, close[s]))
                              ELSE symbol_data[s]]
             IN  /\ \E s \in Symbols : Flat(rows[s])
                 /\ symbol_data' = rows
                 /\ latest_symbol_data' = LatestBars(present, dt, close)
                 /\ events' = QueuePut(events, MarketEvent)
                 /\ puts' = Append(puts, MarketEvent)
        /\ UNCHANGED continue_backtest
     \/ /\ continue_backtest' = ContinueAfterStopIteration
        /\ UNCHANGED <<symbol_data, latest_symbol_data, events, puts>>
  /\ UNCHANGED <<event, invested, pvalue, ledger, snapshots, pc, calls>>

\* The outer loop's break once the feed has reported exhaustion.
Finish ==
  /\ pc = "drain"
  /\ QueueEmpty(events)
  /\ ~continue_backtest
  /\ pc' = "done"
  /\ UNCHANGED <<feed, events, event, invested, pvalue, ledger, snapshots,
                 puts, calls>>

\* ------------------------------------------------------- signal generator
\* symbol_df.index.get_loc(current_date): the position (from 1) of the row
\* labelled dt, 0 standing for KeyError.
GetLoc(rows, dt) ==
  IF \E i \in 1..Len(rows) : rows[i].dt = dt
    THEN CHOOSE i \in 1..Len(rows) : rows[i].dt = dt
    ELSE 0

\* _get_recent_data: the rows of the symbol up to its latest bar, at most
\* lookback of them; None (some = FALSE) on KeyError.
GetRecentData(symbol) ==
  IF symbol \notin DOMAIN latest_symbol_data
    THEN [some |-> FALSE, rows |-> <<>>]
    ELSE LET current_date == latest_symbol_data[symbol].dt
             symbol_df == symbol_data[symbol]
             loc == GetLoc(symbol_df, current_date)
         IN  IF loc = 0
               THEN [some |-> FALSE, rows |-> <<>>]
               ELSE LET current_index == loc - 1
                        start_index == Max(0, current_index - Lookback + 1)
                    IN  [some |-> TRUE,
                         rows |-> SubSeq(symbol_df, start_index + 1,
                                         current_index + 1)]

\* The guard of line 21: both windows exist and are full.
WindowsFull ==
  LET df1 == GetRecentData(symbol_list[1])
      df2 == GetRecentData(symbol_list[2])
  IN  /\ df1.some
      /\ df2.some
      /\ Len(df1.rows) >= Lookback
      /\ Len(df2.rows) >= Lookback

\* spread = df1['Close'].values - df2['Close'].values
SpreadOf(df1, df2) == [i \in 1..Len(df1) |-> df1[i].Close - df2[i].Close]

CurrentSpread ==
  SpreadOf(GetRecentData(symbol_list[1]).rows, GetRecentData(symbol_list[2]).rows)

\* z_score = (spread[-1] - mean) / std with the population std.  With n
\* values of sum S and sum of squares Q, z = ZNum / sqrt(ZDen2) where
\* ZNum = n*spread[-1] - S and ZDen2 = n*Q - S*S.  A zero std gives 0/0,
\* a NaN in numpy, of which every comparison is false.
ZNum(spread) == Len(spread) * spread[Len(spread)] - SumSeq(spread)

ZDen2(spread) ==
  Len(spread) * SumSeq([i \in 1..Len(spread) |-> spread[i] * spread[i]])
    - SumSeq(spread) * SumSeq(spread)

\* z_score > t/2, z_score < -t/2, abs(z_score) < t/2, z_score = t/2.
ZAboveInclusive(spread, t) ==
  /\ ZDen2(spread) > 0
  /\ ZNum(spread) > 0
  /\ 4 * ZNum(spread) * ZNum(spread) >= t * t * ZDen2(spread)

ZAbove(spread, t) ==
  /\ ZDen2(spread) > 0
  /\ ZNum(spread) > 0
  /\ 4 * ZNum(spread) * ZNum(spread) > t * t * ZDen2(spread)

ZBelow(spread, t) ==
  /\ ZDen2(spread) > 0
  /\ ZNum(spread) < 0
  /\ 4 * ZNum(spread) * ZNum(spread) > t * t * ZDen2(spread)

ZAbsBelow(spread, t) ==
  /\ ZDen2(spread) > 0
  /\ 4 * ZNum(spread) * ZNum(spread) < t * t * ZDen2(spread)

\* The trading logic of lines 34-45: which rule fires.
TradingLogicUnguarded(inv, spread) ==
  IF ZAbove(spread, EntryZ) THEN "SHORT_SPREAD"
  ELSE IF ZBelow(spread, EntryZ) THEN "LONG_SPREAD"
  ELSE IF ZAbsBelow(spread, ExitZ) THEN "EXIT"
  ELSE "NONE"

TradingLogic(inv, spread) ==
  IF ~inv /\ ZAbove(spread, EntryZ) THEN "SHORT_SPREAD"
  ELSE IF ~inv /\ ZBelow(spread, EntryZ) THEN "LONG_SPREAD"
  ELSE IF inv /\ ZAbsBelow(spread, ExitZ) THEN "EXIT"
  ELSE "NONE"

\* The two signals a rule puts, in put order.
SignalsOfExitFirstOnly(rule) ==
  LET s1 == symbol_list[1]
      s2 == symbol_list[2]
      t1 == latest_symbol_data[s1].dt
      t2 == latest_symbol_data[s2].dt
  IN  IF rule = "SHORT_SPREAD"
        THEN <<SignalEvent(s1, t1, "SHORT"), SignalEvent(s2, t2, "LONG")>>
      ELSE IF rule = "LONG_SPREAD"
        THEN <<SignalEvent(s1, t1, "LONG"), SignalEvent(s2, t2, "SHORT")>>
      ELSE IF rule = "EXIT"
        THEN <<SignalEvent(s1, t1, "EXIT")>>
      ELSE <<>>

SignalsOf(rule) ==
  LET s1 == symbol_list[1]
      s2 == symbol_list[2]
      t1 == latest_symbol_data[s1].dt
      t2 == latest_symbol_data[s2].dt
  IN  IF rule = "SHORT_SPREAD"
        THEN <<SignalEvent(s1, t1, "SHORT"), SignalEvent(s2, t2, "LONG")>>
      ELSE IF rule = "LONG_SPREAD"
        THEN <<SignalEvent(s1, t1, "LONG"), SignalEvent(s2, t2, "SHORT")>>
      ELSE IF rule = "EXIT"
        THEN <<SignalEvent(s1, t1, "EXIT"), SignalEvent(s2, t2, "EXIT")>>
      ELSE <<>>

InvestedAfterNoExit(inv, rule) ==
  IF rule \in {"SHORT_SPREAD", "LONG_SPREAD"} THEN TRUE
  ELSE inv

InvestedAfter(inv, rule) ==
  IF rule \in {"SHORT_SPREAD", "LONG_SPREAD"} THEN TRUE
  ELSE IF rule = "EXIT" THEN FALSE
  ELSE inv

\* The verdicts of coint() on a window: a p-value >= 0.05 or < 0.05.
PValues == {"ge", "lt"}

\* The test of line 26 on coint()'s p-value.
CointegratedAlways(p) == TRUE

Cointegrated(p) == p = "lt"

\* The driver gets a MARKET event and calls strategy.calculate_signals.
\* coint() is the statsmodels test: its verdict on the window is an input.
CalculateSignals ==
  /\ pc = "drain"
  /\ ~QueueEmpty(events)
  /\ LET got == QueueGet(events)
     IN  /\ Dispatch(got.item) = "market"
         /\ event' = got.item
         /\ calls' = Append(calls, [handler |-> "calculate_signals",
                                    event |-> got.item])
         /\ pc' = "timeindex"
         /\ IF got.item.type = "MARKET" /\ WindowsFull
              THEN \E p \in PValues :
                     LET rule == IF Cointegrated(p)
                                   THEN TradingLogic(invested, CurrentSpread)
                                   ELSE "NONE"
                     IN  /\ pvalue' = p
                         /\ events' = got.rest \o SignalsOf(rule)
                         /\ puts' = puts \o SignalsOf(rule)
                         /\ invested' = InvestedAfter(invested, rule)
              ELSE /\ events' = got.rest
                   /\ UNCHANGED <<pvalue, puts, invested>>
  /\ UNCHANGED <<feed, ledger, snapshots>>

\* ------------------------------------------------------------- portfolio
\* The close of a latest bar (the .iloc[0] branch is for a one-element
\* Series, the same value).
ClosePrice(symbol) == latest_symbol_data[symbol].Close

\* list.append of a snapshot.
SnapshotOverwrite(all, d) == [all EXCEPT ![Len(all)] = d]

SnapshotAppendTwice(all, d) == Append(Append(all, d), d)

SnapshotAppend(all, d) == Append(all, d)

\* The market value of a symbol in update_timeindex's loop: position *
\* price for a symbol that has a latest bar, else the initial 0.0.
SymbolValue(symbol) ==
  IF symbol \in DOMAIN latest_symbol_data
    THEN current_positions[symbol] * ClosePrice(symbol)
    ELSE 0

MarketValueFirstOnly == SymbolValue(symbol_list[1])

MarketValue ==
  SumSeq([i \in 1..Len(symbol_list) |-> SymbolValue(symbol_list[i])])

\* The dh record update_timeindex builds.
NewHoldings(latest_datetime) ==
  ("datetime" :> latest_datetime) @@
  ("total" :> current_holdings["cash"] + MarketValue) @@
  ("commission" :> current_holdings["commission"]) @@
  ("cash" :> current_holdings["cash"]) @@
  [s \in Symbols |-> SymbolValue(s)]

\* The dp record update_timeindex builds.
NewPositionsInitial(latest_datetime) ==
  ("datetime" :> latest_datetime) @@ [s \in Symbols |-> 0]

NewPositions(latest_datetime) ==
  ("datetime" :> latest_datetime) @@ current_positions

\* The second call of the MARKET branch: port.update_timeindex.  Indexing
\* latest_symbol_data by the reference symbol raises KeyError when it has
\* no bar.
UpdateTimeindex ==
  /\ pc = "timeindex"
  /\ calls' = Append(calls, [handler |-> "update_timeindex", event |-> event])
  /\ pvalue' = "none"
  /\ IF event.type # "MARKET"
       THEN /\ pc' = "drain"
            /\ UNCHANGED snapshots
       ELSE IF symbol_list[1] \notin DOMAIN latest_symbol_data
         THEN /\ pc' = "crashed"
              /\ UNCHANGED snapshots
         ELSE LET latest_datetime == latest_symbol_data[symbol_list[1]].dt
              IN  /\ all_positions' =
                       SnapshotAppend(all_positions, NewPositions(latest_datetime))
                  /\ all_holdings' =
                       SnapshotAppend(all_holdings, NewHoldings(latest_datetime))
                  /\ pc' = "drain"
  /\ UNCHANGED <<feed, events, event, invested, ledger, puts>>

\* _generate_order: the order for a signal, none = TRUE standing for None.
GenerateOrderFixedSize(signal) ==
  LET symbol == signal.symbol
      quantity == BaseQuantity
      current_quantity == current_positions[symbol]
  IN  IF signal.signal_type = "LONG"
        THEN [none |-> FALSE,
              order |-> OrderEvent(symbol, "MKT", quantity, "BUY")]
      ELSE IF signal.signal_type = "SHORT"
        THEN [none |-> FALSE,
              order |-> OrderEvent(symbol, "MKT", quantity, "SELL")]
      ELSE IF signal.signal_type = "EXIT" /\ current_quantity # 0
        THEN [none |-> FALSE,
              order |-> OrderEvent(symbol, "MKT", Abs(current_quantity),
                                   IF current_quantity > 0 THEN "SELL" ELSE "BUY")]
      ELSE [none |-> TRUE, order |-> MarketEvent]

GenerateOrderExitFixedSize(signal) ==
  LET symbol == signal.symbol
      quantity == (BaseQuantity * signal.strength) \div StrengthUnit
      current_quantity == current_positions[symbol]
  IN  IF signal.signal_type = "LONG"
        THEN [none |-> FALSE,
              order |-> OrderEvent(symbol, "MKT", quantity, "BUY")]
      ELSE IF signal.signal_type = "SHORT"
        THEN [none |-> FALSE,
              order |-> OrderEvent(symbol, "MKT", quantity, "SELL")]
      ELSE IF signal.signal_type = "EXIT"
        THEN [none |-> FALSE,
              order |-> OrderEvent(symbol, "MKT", quantity,
                                   IF current_quantity > 0 THEN "SELL" ELSE "BUY")]
      ELSE [none |-> TRUE, order |-> MarketEvent]

GenerateOrderNoExit(signal) ==
  LET symbol == signal.symbol
      quantity == (BaseQuantity * signal.strength) \div StrengthUnit
  IN  IF signal.signal_type = "LONG"
        THEN [none |-> FALSE,
              order |-> OrderEvent(symbol, "MKT", quantity, "BUY")]
      ELSE IF signal.signal_type = "SHORT"
        THEN [none |-> FALSE,
              order |-> OrderEvent(symbol, "MKT", quantity, "SELL")]
      ELSE [none |-> TRUE, order |-> MarketEvent]

GenerateOrder(signal) ==
  LET symbol == signal.symbol
      quantity == (BaseQuantity * signal.strength) \div StrengthUnit
      current_quantity == current_positions[symbol]
  IN  IF signal.signal_type = "LONG"
        THEN [none |-> FALSE,
              order |-> OrderEvent(symbol, "MKT", quantity, "BUY")]
      ELSE IF signal.signal_type = "SHORT"
        THEN [none |-> FALSE,
              order |-> OrderEvent(symbol, "MKT", quantity, "SELL")]
      ELSE IF signal.signal_type = "EXIT" /\ current_quantity # 0
        THEN [none |-> FALSE,
              order |-> OrderEvent(symbol, "MKT", Abs(current_quantity),
                                   IF current_quantity > 0 THEN "SELL" ELSE "BUY")]
      ELSE [none |-> TRUE, order |-> MarketEvent]

\* The driver gets a SIGNAL event and calls port.on_signal.
OnSignal ==
  /\ pc = "drain"
  /\ ~QueueEmpty(events)
  /\ LET got == QueueGet(events)
         gen == GenerateOrder(got.item)
     IN  /\ Dispatch(got.item) = "signal"
         /\ event' = got.item
         /\ calls' = Append(calls, [handler |-> "on_signal", event |-> got.item])
         /\ IF got.item.type = "SIGNAL" /\ ~gen.none
              THEN /\ events' = QueuePut(got.rest, gen.order)
                   /\ puts' = Append(puts, gen.order)
              ELSE /\ events' = got.rest
                   /\ UNCHANGED puts
  /\ UNCHANGED <<feed, invested, pvalue, ledger, snapshots, pc>>

\* update_fill's effect on the positions and on the holdings.
FillDir(ev) == IF ev.direction = "BUY" THEN 1 ELSE -1

PositionsAfterFillUnsigned(ev) ==
  [current_positions EXCEPT ![ev.symbol] = @ + ev.quantity]

PositionsAfterFill(ev) ==
  [current_positions EXCEPT
     ![ev.symbol] = @ + FillDir(ev) * ev.quantity]

HoldingsAfterFillNoCommission(ev) ==
  [current_holdings EXCEPT
     !["cash"] = @ - FillDir(ev) * ev.fill_cost,
     !["commission"] = @ + ev.commission]

HoldingsAfterFill(ev) ==
  [current_holdings EXCEPT
     !["cash"] = @ - (FillDir(ev) * ev.fill_cost + ev.commission),
     !["commission"] = @ + ev.commission]

\* The driver gets a FILL event and calls port.update_fill.
UpdateFill ==
  /\ pc = "drain"
  /\ ~QueueEmpty(events)
  /\ LET got == QueueGet(events)
     IN  /\ Dispatch(got.item) = "fill"
         /\ event' = got.item
         /\ calls' = Append(calls, [handler |-> "update_fill", event |-> got.item])
         /\ events' = got.rest
         /\ IF got.item.type = "FILL"
              THEN /\ current_positions' = PositionsAfterFill(got.item)
                   /\ current_holdings' = HoldingsAfterFill(got.item)
              ELSE UNCHANGED ledger
  /\ UNCHANGED <<feed, invested, pvalue, snapshots, pc, puts>>

\* ------------------------------------------------------------- execution
\* The FillEvent execute_order builds for an order.
FillOfSignedCost(order) ==
  FillEvent(latest_symbol_data[order.symbol].dt, order.symbol, "ARCA",
            order.quantity, order.direction,
            (IF order.direction = "BUY" THEN 1 ELSE -1)
              * ClosePrice(order.symbol) * order.quantity, Commission)

FillOf(order) ==
  FillEvent(latest_symbol_data[order.symbol].dt, order.symbol, "ARCA",
            order.quantity, order.direction,
            ClosePrice(order.symbol) * order.quantity, Commission)

\* The driver gets an ORDER event and calls broker.execute_order.  Indexing
\* latest_symbol_data by a symbol without a bar raises KeyError, which
\* nothing catches: the run ends.
ExecuteOrder ==
  /\ pc = "drain"
  /\ ~QueueEmpty(events)
  /\ LET got == QueueGet(events)
     IN  /\ Dispatch(got.item) = "order"
         /\ event' = got.item
         /\ calls' = Append(calls, [handler |-> "execute_order", event |-> got.item])
         /\ IF got.item.type # "ORDER"
              THEN /\ events' = got.rest
                   /\ UNCHANGED <<puts, pc>>
              ELSE IF got.item.symbol \notin DOMAIN latest_symbol_data
                THEN /\ events' = got.rest
                     /\ pc' = "crashed"
                     /\ UNCHANGED puts
                ELSE /\ events' = QueuePut(got.rest, FillOf(got.item))
                     /\ puts' = Append(puts, FillOf(got.item))
                     /\ UNCHANGED pc
  /\ UNCHANGED <<feed, invested, pvalue, ledger, snapshots>>

\* ---------------------------------------------------------- specification
Next ==
  \/ UpdateBars
  \/ CalculateSignals
  \/ UpdateTimeindex
  \/ OnSignal
  \/ ExecuteOrder
  \/ UpdateFill
  \/ Finish

Spec == Init /\ [][Next]_vars

\* The driver loop is one thread that runs until it breaks: it never stops
\* while a step is possible.
FairSpec == Spec /\ WF_vars(Next)

\* ------------------------------------------------- the portfolio harness
\* The Portfolio, the execution handler and the queue driven by signals
\* given from outside, as a unit test of on_signal does: a feed whose
\* current bar holds both symbols, and a driver that puts one SignalEvent
\* of any symbol, type and strength once the queue has drained.
HarnessInit ==
  /\ symbol_data = [s \in Symbols |-> <<Row(1, FlatClose)>>]
  /\ latest_symbol_data = [s \in Symbols |-> Row(1, FlatClose)]
  /\ continue_backtest = TRUE
  /\ events = <<>>
  /\ event = NoEvent
  /\ invested = FALSE
  /\ pvalue = "none"
  /\ current_positions = [s \in Symbols |-> 0]
  /\ current_holdings = ConstructInitialHoldings
  /\ all_positions = <<[s \in Symbols |-> 0]>>
  /\ all_holdings = <<ConstructInitialHoldings>>
  /\ pc = "drain"
  /\ puts = <<>>
  /\ calls = <<>>

PutSignal ==
  /\ pc = "drain"
  /\ QueueEmpty(events)
  /\ Len(SelectSeq(puts, LAMBDA e : e.type = "SIGNAL")) < MaxSignals
  /\ \E symbol \in Symbols, signal_type \in {"LONG", "SHORT", "EXIT"},
        strength \in Strengths :
       LET signal == SignalEventWithStrength(
                       symbol, latest_symbol_data[symbol].dt, signal_type, strength)
       IN  /\ events' = QueuePut(events, signal)
           /\ puts' = Append(puts, signal)
  /\ UNCHANGED <<feed, event, invested, pvalue, ledger, snapshots, pc, calls>>

HarnessNext ==
  \/ PutSignal
  \/ OnSignal
  \/ ExecuteOrder
  \/ UpdateFill

HarnessSpec == HarnessInit /\ [][HarnessNext]_vars

\* ================================================================ claims
Last(s) == s[Len(s)]

IsPrefix(s, t) == Len(s) <= Len(t) /\ SubSeq(t, 1, Len(s)) = s

\* The events put by the step being taken.
NewPuts == SubSeq(puts', Len(puts) + 1, Len(puts'))

\* The FillEvents update_fill has applied so far.
IsFillCall(c) == c.handler = "update_fill" /\ c.event.type = "FILL"
Fills ==
  LET fs == SelectSeq(calls, IsFillCall)
  IN  [i \in 1..Len(fs) |-> fs[i].event]

\* The MarketEvents the Portfolio has processed so far.
IsMarketProcessed(c) == c.handler = "update_timeindex" /\ c.event.type = "MARKET"
MarketsProcessed == Len(SelectSeq(calls, IsMarketProcessed))

\* The SignalEvents put so far.
IsSignal(e) == e.type = "SIGNAL"
SignalsPut == SelectSeq(puts, IsSignal)

Side(direction) == IF direction = "BUY" THEN 1 ELSE -1

\* The strategy is taking its step on a MARKET event.
StrategyStep ==
  /\ pc = "drain"
  /\ events # <<>>
  /\ Head(events).type = "MARKET"
  /\ pc' = "timeindex"

\* C1: the feed is advanced only when the channel is empty.  A MarketEvent
\* in the channel is alone in it, and every SignalEvent and FillEvent in the
\* channel carries the timestamp of the feed's current bar: nothing of bar t
\* is still queued when the MarketEvent of bar t+1 is put.
C1_DrainBeforeAdvance ==
  \A i \in 1..Len(events) :
    /\ events[i].type = "MARKET" => Len(events) = 1
    /\ events[i].type = "SIGNAL" =>
         /\ symbol_list[1] \in DOMAIN latest_symbol_data
         /\ events[i].datetime = latest_symbol_data[symbol_list[1]].dt
    /\ events[i].type = "FILL" =>
         /\ symbol_list[1] \in DOMAIN latest_symbol_data
         /\ events[i].timeindex = latest_symbol_data[symbol_list[1]].dt

\* A second bar's MarketEvent is queued after a first bar's drain that
\* handled signals, orders and fills.
C1_Witness ==
  /\ events = <<MarketEvent>>
  /\ \E i \in 1..Len(calls) : calls[i].handler = "update_fill"

\* The handlers the dispatch table gives an event type, in call order.
OwnersOf(type) ==
  IF type = "MARKET" THEN <<"calculate_signals", "update_timeindex">>
  ELSE IF type = "SIGNAL" THEN <<"on_signal">>
  ELSE IF type = "ORDER" THEN <<"execute_order">>
  ELSE IF type = "FILL" THEN <<"update_fill">>
  ELSE <<>>

RECURSIVE ExpectedCalls(_)
ExpectedCalls(es) ==
  IF es = <<>> THEN <<>>
  ELSE [i \in 1..Len(OwnersOf(Head(es).type)) |->
          [handler |-> OwnersOf(Head(es).type)[i], event |-> Head(es)]]
       \o ExpectedCalls(Tail(es))

\* C2: events leave the channel in the order they were put, and the calls
\* made so far are exactly the owners of the events got, in that order: for
\* a MARKET event calculate_signals and then update_timeindex, for a SIGNAL
\* on_signal only, for an ORDER execute_order only, for a FILL update_fill
\* only.
C2_FifoDispatch ==
  LET k == Len(puts) - Len(events)
      expected == ExpectedCalls(SubSeq(puts, 1, k))
  IN  /\ k >= 0
      /\ events = SubSeq(puts, k + 1, Len(puts))
      /\ calls = IF pc = "timeindex"
                   THEN SubSeq(expected, 1, Len(expected) - 1)
                   ELSE expected

\* All five handlers have been called.
C2_Witness ==
  /\ pc = "drain"
  /\ {calls[i].handler : i \in 1..Len(calls)} =
       {"calculate_signals", "update_timeindex", "on_signal",
        "execute_order", "update_fill"}

\* C3 as claimed: n snapshots of each kind after n processed MarketEvents.
C3_OnePerMarketEvent ==
  /\ Len(all_holdings) = MarketsProcessed
  /\ Len(all_positions) = MarketsProcessed

\* C3 amended: the constructor seeds each sequence with one snapshot, so
\* after n processed MarketEvents each sequence holds n + 1 entries.
C3_SeedPlusOnePerMarketEvent ==
  /\ Len(all_holdings) = MarketsProcessed + 1
  /\ Len(all_positions) = MarketsProcessed + 1

C3_Witness ==
  /\ MarketsProcessed >= 3
  /\ Len(all_holdings) = 4

\* C4: after every handled event the two snapshot sequences have equal
\* length, every entry carries a timestamp, and the timestamps of each
\* sequence are non-decreasing.
C4_TimestampedSnapshots ==
  calls # <<>> =>
    /\ Len(all_positions) = Len(all_holdings)
    /\ \A i \in 1..Len(all_positions) : "datetime" \in DOMAIN all_positions[i]
    /\ \A i \in 1..Len(all_holdings) : "datetime" \in DOMAIN all_holdings[i]
    /\ \A i \in 1..Len(all_positions), j \in 1..Len(all_positions) :
         i <= j => all_positions[i]["datetime"] <= all_positions[j]["datetime"]
    /\ \A i \in 1..Len(all_holdings), j \in 1..Len(all_holdings) :
         i <= j => all_holdings[i]["datetime"] <= all_holdings[j]["datetime"]

\* The close of the symbol's bar at date dt, and whether it has one.
HasBarAt(symbol, dt) ==
  \E i \in 1..Len(symbol_data[symbol]) : symbol_data[symbol][i].dt = dt

CloseAt(symbol, dt) ==
  symbol_data[symbol][CHOOSE i \in 1..Len(symbol_data[symbol]) :
                        symbol_data[symbol][i].dt = dt].Close

\* The close of the symbol's last bar at or before date dt (0 when none).
BarsUpTo(symbol, dt) ==
  {i \in 1..Len(symbol_data[symbol]) : symbol_data[symbol][i].dt <= dt}

LastKnownClose(symbol, dt) ==
  IF BarsUpTo(symbol, dt) = {} THEN 0
  ELSE symbol_data[symbol][CHOOSE i \in BarsUpTo(symbol, dt) :
                             \A j \in BarsUpTo(symbol, dt) : j <= i].Close

\* The ledger values a snapshot pair was taken from: the snapshot appended
\* by the call just made copies the current cash and positions.
SnapshotOfLedger ==
  (calls # <<>> /\ Last(calls).handler = "update_timeindex" /\ pc = "drain") =>
    /\ Last(all_holdings)["cash"] = current_holdings["cash"]
    /\ \A s \in Symbols : Last(all_positions)[s] = current_positions[s]

\* C5 as claimed: every Holdings snapshot's total is cash plus, over all
\* symbols, position times the last known close, also for a symbol that
\* has no bar at the snapshot's step.
C5_TotalAtLastKnownClose ==
  /\ Len(all_holdings) = Len(all_positions)
  /\ SnapshotOfLedger
  /\ \A i \in 1..Len(all_holdings) :
       all_holdings[i]["total"] =
         all_holdings[i]["cash"]
           + SumSeq([k \in 1..Len(symbol_list) |->
                       all_positions[i][symbol_list[k]]
                         * (IF "datetime" \in DOMAIN all_holdings[i]
                              THEN LastKnownClose(symbol_list[k],
                                                  all_holdings[i]["datetime"])
                              ELSE 0)])

\* C5 amended: the total is cash plus, over the symbols that have a bar at
\* the snapshot's step, position times that bar's close; a symbol without
\* a bar at that step adds nothing, whatever its position.
C5_TotalAtCurrentClose ==
  /\ Len(all_holdings) = Len(all_positions)
  /\ SnapshotOfLedger
  /\ \A i \in 1..Len(all_holdings) :
       all_holdings[i]["total"] =
         all_holdings[i]["cash"]
           + SumSeq([k \in 1..Len(symbol_list) |->
                       IF /\ "datetime" \in DOMAIN all_holdings[i]
                          /\ HasBarAt(symbol_list[k], all_holdings[i]["datetime"])
                         THEN all_positions[i][symbol_list[k]]
                                * CloseAt(symbol_list[k],
                                          all_holdings[i]["datetime"])
                         ELSE 0])

\* A snapshot taken at a step where a symbol with a position has no bar.
C5_Witness ==
  \E i \in 1..Len(all_holdings) :
    /\ "datetime" \in DOMAIN all_holdings[i]
    /\ all_positions[i][symbol_list[2]] # 0
    /\ ~HasBarAt(symbol_list[2], all_holdings[i]["datetime"])
    /\ all_holdings[i]["total"] # all_holdings[i]["cash"]

\* C6: cash is initial_cash minus the sum over the fills applied so far of
\* signed fill_cost plus commission (+fill_cost for BUY, -fill_cost for
\* SELL).
C6_CashLedger ==
  current_holdings["cash"] =
    initial_capital
      - SumSeq([i \in 1..Len(Fills) |->
                  Side(Fills[i].direction) * Fills[i].fill_cost
                    + Fills[i].commission])

\* A BUY and a SELL have been applied.
C6_Witness ==
  /\ \E i \in 1..Len(Fills) : Fills[i].direction = "BUY"
  /\ \E i \in 1..Len(Fills) : Fills[i].direction = "SELL"
  /\ current_holdings["cash"] # initial_capital

\* C7: the position of each symbol is the signed sum of the quantities of
\* the fills applied so far for it, from 0.
C7_PositionLedger ==
  \A s \in Symbols :
    current_positions[s] =
      SumSeq([i \in 1..Len(Fills) |->
                IF Fills[i].symbol = s
                  THEN Side(Fills[i].direction) * Fills[i].quantity
                  ELSE 0])

\* A SELL has left a short position and a BUY a long one.
C7_Witness ==
  /\ \E s \in Symbols : current_positions[s] < 0
  /\ \E s \in Symbols : current_positions[s] > 0

\* C8: a step that changes the current cash, the cumulative commission or
\* the current positions is the handling of a FillEvent by update_fill, so
\* handling a MarketEvent, a SignalEvent or an OrderEvent leaves them
\* unchanged; and every step keeps the snapshots appended so far as they
\* are.
C8_OnlyFillsMutate ==
  [][/\ (\/ current_positions' # current_positions
         \/ current_holdings'["cash"] # current_holdings["cash"]
         \/ current_holdings'["commission"] # current_holdings["commission"])
        => /\ Len(calls') = Len(calls) + 1
           /\ Last(calls').handler = "update_fill"
           /\ Last(calls').event.type = "FILL"
     /\ IsPrefix(all_positions, all_positions')
     /\ IsPrefix(all_holdings, all_holdings')]_vars

\* A fill has just changed the ledger of a run with snapshots appended.
C8_Witness ==
  /\ calls # <<>>
  /\ Last(calls).handler = "update_fill"
  /\ current_holdings["cash"] # initial_capital
  /\ current_holdings["commission"] > 0
  /\ Len(all_holdings) > 2

\* The signals put so far come in pairs that alternate entry, exit, entry,
\* ..., each pair for symbol1 then symbol2.
SignalsAlternate ==
  /\ Len(SignalsPut) % 2 = 0
  /\ \A k \in 1..Len(SignalsPut) :
       /\ SignalsPut[k].symbol = symbol_list[2 - (k % 2)]
       /\ IF ((k + 1) \div 2) % 2 = 1
            THEN SignalsPut[k].signal_type \in {"LONG", "SHORT"}
            ELSE SignalsPut[k].signal_type = "EXIT"
  /\ invested = ((Len(SignalsPut) \div 2) % 2 = 1)

\* C9: no entry signal (LONG or SHORT) is put while the state is INVESTED
\* and no EXIT signal while it is NOT_INVESTED; the signal pairs alternate,
\* starting with an entry.
C9_SignalsFollowState ==
  /\ [][\A i \in 1..Len(NewPuts) :
          NewPuts[i].type = "SIGNAL" =>
            /\ NewPuts[i].signal_type \in {"LONG", "SHORT"} => ~invested
            /\ NewPuts[i].signal_type = "EXIT" => invested]_vars
  /\ []SignalsAlternate

\* An entry pair and then an exit pair have been put.
C9_Witness ==
  /\ Len(SignalsPut) >= 4
  /\ SignalsPut[4].signal_type = "EXIT"
  /\ ~invested

\* The z-score of the spread compared with t/2, from the definition of z.
ZGt(spread, t) ==
  ZDen2(spread) > 0 /\ ZNum(spread) > 0
    /\ 4 * ZNum(spread) * ZNum(spread) > t * t * ZDen2(spread)

ZLt(spread, t) ==
  ZDen2(spread) > 0 /\ ZNum(spread) < 0
    /\ 4 * ZNum(spread) * ZNum(spread) > t * t * ZDen2(spread)

ZEqAbs(spread, t) ==
  ZDen2(spread) > 0
    /\ 4 * ZNum(spread) * ZNum(spread) = t * t * ZDen2(spread)

SignalPair(first, second) ==
  /\ Len(NewPuts) = 2
  /\ NewPuts[1].type = "SIGNAL"
  /\ NewPuts[1].symbol = symbol_list[1]
  /\ NewPuts[1].signal_type = first
  /\ NewPuts[2].type = "SIGNAL"
  /\ NewPuts[2].symbol = symbol_list[2]
  /\ NewPuts[2].signal_type = second

\* The strategy's step on a full, cointegrated window, NOT_INVESTED.
EntryCase ==
  /\ StrategyStep
  /\ WindowsFull
  /\ pvalue' = "lt"
  /\ ~invested

\* C10 as claimed: on a full, cointegrated window and NOT_INVESTED, z >= 2.0
\* puts (symbol1 SHORT, symbol2 LONG) and z <= -2.0 puts (symbol1 LONG,
\* symbol2 SHORT), the state becoming INVESTED, the boundaries included.
C10_EntryInclusive ==
  [][EntryCase =>
       /\ (ZGt(CurrentSpread, EntryZ)
             \/ (ZEqAbs(CurrentSpread, EntryZ) /\ ZNum(CurrentSpread) > 0))
            => SignalPair("SHORT", "LONG") /\ invested'
       /\ (ZLt(CurrentSpread, EntryZ)
             \/ (ZEqAbs(CurrentSpread, EntryZ) /\ ZNum(CurrentSpread) < 0))
            => SignalPair("LONG", "SHORT") /\ invested']_vars

\* C10 amended: z > 2.0 puts (symbol1 SHORT, symbol2 LONG) and z < -2.0
\* puts (symbol1 LONG, symbol2 SHORT), the state becoming INVESTED; at
\* z = 2.0 or z = -2.0 exactly nothing is put and the state stays
\* NOT_INVESTED.
C10_EntryStrict ==
  [][EntryCase =>
       /\ ZGt(CurrentSpread, EntryZ) => SignalPair("SHORT", "LONG") /\ invested'
       /\ ZLt(CurrentSpread, EntryZ) => SignalPair("LONG", "SHORT") /\ invested'
       /\ ZEqAbs(CurrentSpread, EntryZ) => NewPuts = <<>> /\ ~invested']_vars

\* The strategy has just entered on a cointegrated window with z > 2.0.
C10_Witness ==
  /\ pc = "timeindex"
  /\ pvalue = "lt"
  /\ invested
  /\ ZGt(CurrentSpread, EntryZ)
  /\ Len(events) = 2
  /\ events[1].signal_type = "SHORT"
  /\ events[2].signal_type = "LONG"

ZAbsLt(spread, t) ==
  ZDen2(spread) > 0
    /\ 4 * ZNum(spread) * ZNum(spread) < t * t * ZDen2(spread)

\* The strategy's step on a full, cointegrated window.
CointegratedCase ==
  /\ StrategyStep
  /\ WindowsFull
  /\ pvalue' = "lt"

\* C11: on a full, cointegrated window and INVESTED, |z| < 0.5 puts
\* (symbol1 EXIT, symbol2 EXIT) and the state becomes NOT_INVESTED; in every
\* other (state, z) combination that no entry rule covers nothing is put
\* and the state is kept.  Every MarketEvent produces 0 or exactly 2
\* signals.
C11_ExitRule ==
  [][/\ CointegratedCase =>
          /\ (invested /\ ZAbsLt(CurrentSpread, ExitZ))
               => SignalPair("EXIT", "EXIT") /\ ~invested'
          /\ (invested /\ ~ZAbsLt(CurrentSpread, ExitZ))
               => NewPuts = <<>> /\ invested'
          /\ (~invested /\ ~ZGt(CurrentSpread, EntryZ)
                        /\ ~ZLt(CurrentSpread, EntryZ))
               => NewPuts = <<>> /\ ~invested'
     /\ StrategyStep =>
          /\ Len(NewPuts) \in {0, 2}
          /\ \A i \in 1..Len(NewPuts) : NewPuts[i].type = "SIGNAL"]_vars

\* The strategy has just exited on a cointegrated window with |z| < 0.5.
C11_Witness ==
  /\ pc = "timeindex"
  /\ pvalue = "lt"
  /\ ~invested
  /\ ZAbsLt(CurrentSpread, ExitZ)
  /\ Len(events) = 2
  /\ events[1].signal_type = "EXIT"
  /\ events[2].signal_type = "EXIT"

\* The feed's current timestamp and the number of observations a symbol
\* has up to it.
CurrentTimestamp == Len(symbol_data[symbol_list[1]])

Observations(symbol) == Cardinality(BarsUpTo(symbol, CurrentTimestamp))

\* C12: on a MarketEvent where a symbol has fewer than lookback
\* observations up to the current timestamp, or a symbol has no bar at the
\* current timestamp, or the cointegration p-value is >= 0.05, the signal
\* generator puts no event and keeps its state.
C12_NoOpGuards ==
  [][(/\ StrategyStep
      /\ \/ \E s \in Symbols : Observations(s) < Lookback
         \/ \E s \in Symbols : ~HasBarAt(s, CurrentTimestamp)
         \/ pvalue' = "ge")
       => /\ NewPuts = <<>>
          /\ invested' = invested
          /\ events' = <<>>]_vars

\* The p-value was >= 0.05 on a full window whose z-score is above 2.0
\* while NOT_INVESTED: nothing was put.
C12_Witness ==
  /\ pc = "timeindex"
  /\ pvalue = "ge"
  /\ ~invested
  /\ \A s \in Symbols : Observations(s) >= Lookback
  /\ ZGt(CurrentSpread, EntryZ)
  /\ events = <<>>

\* C13: when the spread's standard deviation over the window is zero the
\* signal generator performs no division by zero (line 31's division, which
\* runs on every full window that passes the p-value test, never has a zero
\* divisor), puts no signal and keeps its state.
C13_NoDivisionByZero ==
  [][(StrategyStep /\ WindowsFull /\ ZDen2(CurrentSpread) = 0)
       => /\ pvalue' # "lt"
          /\ NewPuts = <<>>
          /\ invested' = invested]_vars

\* on_signal is taking its step on a SignalEvent.
SignalStep ==
  /\ pc = "drain"
  /\ events # <<>>
  /\ Head(events).type = "SIGNAL"
  /\ Len(calls') = Len(calls) + 1

ExitFillStep ==
  /\ pc = "drain"
  /\ events # <<>>
  /\ Head(events).type = "FILL"
  /\ Len(calls) >= 2
  /\ calls[Len(calls) - 1].handler = "on_signal"
  /\ calls[Len(calls) - 1].event.signal_type = "EXIT"
  /\ Last(calls).handler = "execute_order"
  /\ Len(calls') = Len(calls) + 1

\* C15: for an EXIT signal on_signal puts no order when the symbol's
\* position is 0; otherwise it puts exactly one order of quantity
\* |position|, SELL for a positive position and BUY for a negative one, and
\* the fill of that order brings the symbol's position to exactly 0.
C15_ExitOrder ==
  [][/\ (SignalStep /\ Head(events).signal_type = "EXIT") =>
          LET position == current_positions[Head(events).symbol]
          IN  IF position = 0
                THEN NewPuts = <<>>
                ELSE /\ Len(NewPuts) = 1
                     /\ NewPuts[1].type = "ORDER"
                     /\ NewPuts[1].symbol = Head(events).symbol
                     /\ NewPuts[1].quantity =
                          (IF position < 0 THEN -position ELSE position)
                     /\ NewPuts[1].direction =
                          IF position > 0 THEN "SELL" ELSE "BUY"
     /\ ExitFillStep => current_positions'[Head(events).symbol] = 0]_vars

\* An EXIT has found a zero position and put nothing, after an earlier EXIT
\* had closed a short position with a BUY.
C15_Witness ==
  /\ event.type = "SIGNAL"
  /\ event.signal_type = "EXIT"
  /\ Last(calls).handler = "on_signal"
  /\ current_positions[event.symbol] = 0
  /\ events = <<>>
  /\ \E i \in 1..Len(Fills) :
       /\ Fills[i].symbol = event.symbol
       /\ Fills[i].direction = "BUY"
       /\ i > 1
       /\ Fills[i - 1].symbol = event.symbol
       /\ Fills[i - 1].direction = "SELL"
       /\ Fills[i - 1].quantity = Fills[i].quantity
       /\ Fills[i].quantity > 0

\* C16: every order on_signal puts has a positive integer quantity, for
\* every signal type in {LONG, SHORT, EXIT} and every strength in (0, 1].
C16_PositiveQuantity ==
  \A i \in 1..Len(puts) :
    puts[i].type = "ORDER" => puts[i].quantity \in Nat \ {0}

\* execute_order is taking its step on an OrderEvent.
OrderStep ==
  /\ pc = "drain"
  /\ events # <<>>
  /\ Head(events).type = "ORDER"
  /\ Len(calls') = Len(calls) + 1

\* C17: for every order handled the execution simulator puts exactly one
\* FillEvent with the order's symbol, quantity and side, a fill_cost equal
\* to the latest close of the symbol times the quantity and never negative,
\* commission 1.0, and the feed's current timestamp.
C17_OneFillPerOrder ==
  [][OrderStep =>
       LET order == Head(events)
       IN  /\ Len(NewPuts) = 1
           /\ NewPuts[1].type = "FILL"
           /\ NewPuts[1].symbol = order.symbol
           /\ NewPuts[1].quantity = order.quantity
           /\ NewPuts[1].direction = order.direction
           /\ HasBarAt(order.symbol, CurrentTimestamp)
           /\ NewPuts[1].fill_cost =
                CloseAt(order.symbol, CurrentTimestamp) * order.quantity
           /\ NewPuts[1].fill_cost >= 0
           /\ NewPuts[1].commission = 1
           /\ NewPuts[1].timeindex = CurrentTimestamp
           /\ events' = Tail(events) \o NewPuts]_vars

\* A SELL of the symbol whose close has moved off the flat level has just
\* been filled, late in the series.
C17_Witness ==
  /\ calls # <<>>
  /\ Last(calls).handler = "execute_order"
  /\ events # <<>>
  /\ Last(events).type = "FILL"
  /\ Last(events).direction = "SELL"
  /\ Last(events).fill_cost > FlatClose * Last(events).quantity
  /\ Last(events).timeindex = CurrentTimestamp
  /\ CurrentTimestamp >= Lookback

\* C18: in every run of the engine, also over series in which the second
\* symbol misses bars, every order that reaches the execution simulator is
\* for a symbol that has a bar at the feed's current step: execute_order's
\* lookup of the latest bar never fails.
C18_OrdersHaveMarketData ==
  /\ pc # "crashed"
  /\ \A i \in 1..Len(events) :
       events[i].type = "ORDER" =>
         /\ events[i].symbol \in DOMAIN latest_symbol_data
         /\ HasBarAt(events[i].symbol, CurrentTimestamp)
         /\ latest_symbol_data[events[i].symbol].dt = CurrentTimestamp

\* An order for the second symbol is about to be executed in a run in
\* which that symbol has missed an earlier bar.
C18_Witness ==
  /\ pc = "drain"
  /\ events # <<>>
  /\ Head(events).type = "ORDER"
  /\ Head(events).symbol = symbol_list[2]
  /\ \E dt \in 1..CurrentTimestamp : ~HasBarAt(symbol_list[2], dt)

\* The feed's current step is one where the second symbol has no bar.
GapStep ==
  /\ CurrentTimestamp >= 1
  /\ ~HasBarAt(symbol_list[2], CurrentTimestamp)

\* What has been put since the current step's MarketEvent.
PutsOfStep ==
  LET markets == {i \in 1..Len(puts) : puts[i].type = "MARKET"}
      m == CHOOSE i \in markets : \A j \in markets : j <= i
  IN  IF markets = {} THEN <<>> ELSE SubSeq(puts, m + 1, Len(puts))

\* C19: on a step where the second symbol has no bar while the reference
\* symbol has one, the feed exposes no bar for the missing symbol (neither
\* a zero nor the previous step's bar), the step's Holdings snapshot adds
\* nothing for it to the total, its position is not changed by the step,
\* and no signal, order or fill for it is put in the step's drain.
C19_MissingBarStep ==
  /\ [](GapStep =>
         /\ symbol_list[1] \in DOMAIN latest_symbol_data
         /\ symbol_list[2] \notin DOMAIN latest_symbol_data
         /\ \A i \in 1..Len(PutsOfStep) :
              PutsOfStep[i].symbol # symbol_list[2]
         /\ \A i \in 1..Len(all_holdings) :
              ("datetime" \in DOMAIN all_holdings[i]
                 /\ all_holdings[i]["datetime"] = CurrentTimestamp)
                => /\ all_holdings[i][symbol_list[2]] = 0
                   /\ all_holdings[i]["total"] =
                        all_holdings[i]["cash"]
                          + all_positions[i][symbol_list[1]]
                              * CloseAt(symbol_list[1], CurrentTimestamp)
                   /\ all_positions[i][symbol_list[2]] =
                        current_positions[symbol_list[2]])
  /\ [][GapStep' =>
          current_positions'[symbol_list[2]] = current_positions[symbol_list[2]]]_vars

\* The drain of a step without a bar for the second symbol has ended with
\* its snapshot taken, while the second symbol is held.
C19_Witness ==
  /\ GapStep
  /\ pc = "drain"
  /\ events = <<>>
  /\ current_positions[symbol_list[2]] # 0
  /\ "datetime" \in DOMAIN Last(all_holdings)
  /\ Last(all_holdings)["datetime"] = CurrentTimestamp
  /\ Last(all_holdings)[symbol_list[2]] = 0
  /\ Last(all_holdings)["total"] # Last(all_holdings)["cash"]

IsMarket(e) == e.type = "MARKET"
IsCalculateSignals(c) == c.handler = "calculate_signals" /\ c.event.type = "MARKET"

\* The timestamps of the snapshots taken on MarketEvents, in order.
StampedSnapshots == SelectSeq(all_holdings, LAMBDA h : "datetime" \in DOMAIN h)

\* C20: for every finite reference series of N bars the driver loop
\* terminates, having put and processed exactly N MarketEvents in
\* timestamp order; once the feed has reported exhaustion
\* (continue_backtest false) the flag never becomes true again and no
\* further MarketEvent is put.
C20_Terminates ==
  /\ <>(pc = "done")
  /\ [](pc = "done" =>
         /\ events = <<>>
         /\ ~continue_backtest
         /\ Len(SelectSeq(puts, IsMarket)) = CurrentTimestamp
         /\ Len(SelectSeq(calls, IsCalculateSignals)) = CurrentTimestamp
         /\ MarketsProcessed = CurrentTimestamp
         /\ Len(StampedSnapshots) = CurrentTimestamp
         /\ \A i \in 1..Len(StampedSnapshots) :
              StampedSnapshots[i]["datetime"] = i)
  /\ [][~continue_backtest =>
          /\ ~continue_backtest'
          /\ \A i \in 1..Len(NewPuts) : NewPuts[i].type # "MARKET"
          /\ symbol_data' = symbol_data]_vars

\* The loop has ended after a series of full length, with trades made.
C20_Witness ==
  /\ pc = "done"
  /\ ~continue_backtest
  /\ CurrentTimestamp = MaxBars
  /\ MarketsProcessed = MaxBars
  /\ Len(Fills) >= 2

\* The positions of (symbol1, symbol2).
PositionPair == <<current_positions[symbol_list[1]], current_positions[symbol_list[2]]>>

\* C21: whenever the channel is empty the signal generator's state and the
\* ledger agree: NOT_INVESTED with both positions 0, INVESTED with the
\* positions (-100, +100) or (+100, -100) for (symbol1, symbol2); and no
\* position ever exceeds 100 shares in absolute value.
C21_StateMatchesLedger ==
  /\ events = <<>> =>
       IF invested
         THEN PositionPair \in {<<-100, 100>>, <<100, -100>>}
         ELSE PositionPair = <<0, 0>>
  /\ \A s \in Symbols :
       current_positions[s] >= -100 /\ current_positions[s] <= 100

\* Between bars, INVESTED after a long-spread entry has been filled.
C21_Witness ==
  /\ pc = "drain"
  /\ events = <<>>
  /\ continue_backtest
  /\ invested
  /\ PositionPair = <<100, -100>>
  /\ Len(Fills) = 2

\* The fills applied so far that were produced in the drain of a bar
\* earlier than t.
FillsBefore(t) == SelectSeq(Fills, LAMBDA f : f.timeindex < t)

PositionFrom(fs, symbol) ==
  SumSeq([i \in 1..Len(fs) |->
            IF fs[i].symbol = symbol
              THEN Side(fs[i].direction) * fs[i].quantity
              ELSE 0])

CashFrom(fs) ==
  initial_capital
    - SumSeq([i \in 1..Len(fs) |->
                Side(fs[i].direction) * fs[i].fill_cost + fs[i].commission])

\* The bar a snapshot was appended for (0 for the constructor's).
BarOf(snapshot) ==
  IF "datetime" \in DOMAIN snapshot THEN snapshot["datetime"] ELSE 0

\* C22: the Positions and Holdings snapshots appended for bar t reflect
\* exactly the fills produced in the drains of bars earlier than t: the
\* fills of the signals of bar t are applied after bar t's snapshot and
\* first show in bar t+1's snapshot, and the fills of the final bar show
\* in no snapshot.
C22_SnapshotsLagFills ==
  /\ \A i \in 1..Len(all_positions) :
       \A s \in Symbols :
         all_positions[i][s] = PositionFrom(FillsBefore(BarOf(all_positions[i])), s)
  /\ \A i \in 1..Len(all_holdings) :
       /\ all_holdings[i]["cash"] = CashFrom(FillsBefore(BarOf(all_holdings[i])))
       /\ all_holdings[i]["commission"] =
            Len(FillsBefore(BarOf(all_holdings[i]))) * Commission
  /\ \A i \in 1..Len(Fills) :
       /\ Fills[i].timeindex >= 1
       /\ Fills[i].timeindex <= CurrentTimestamp

\* The snapshot of the entry's bar shows no position, the next bar's
\* snapshot shows the entry, and the run has ended with the fills of an
\* exit at the final bar in no snapshot.
C22_Witness ==
  /\ pc = "done"
  /\ Len(Fills) = 4
  /\ Fills[4].timeindex = CurrentTimestamp
  /\ Last(all_positions)[symbol_list[1]] # 0
  /\ current_positions[symbol_list[1]] = 0
  /\ \E i \in 1..(Len(all_positions) - 1) :
       /\ BarOf(all_positions[i]) = Fills[1].timeindex
       /\ all_positions[i][symbol_list[1]] = 0
       /\ all_positions[i + 1][symbol_list[1]] # 0

\* The orders and fills put so far, and the handler calls made so far on
\* events of a type.
OrdersPut == SelectSeq(puts, LAMBDA e : e.type = "ORDER")

FillsPut == SelectSeq(puts, LAMBDA e : e.type = "FILL")

Processed(type) == Len(SelectSeq(calls, LAMBDA c : c.event.type = type))

\* C23: in every engine run every signal of the signal generator gives
\* exactly one order and exactly one fill for the same symbol within the
\* same drain: the k-th order and the k-th fill are those of the k-th
\* signal, on_signal never drops a signal (EXIT never finds a zero
\* position), and whenever the channel is empty the numbers of signals,
\* orders and fills processed so far are equal.
C23_SignalOrderFill ==
  /\ [](/\ Len(OrdersPut) <= Len(SignalsPut)
        /\ Len(FillsPut) <= Len(OrdersPut)
        /\ \A k \in 1..Len(OrdersPut) :
             OrdersPut[k].symbol = SignalsPut[k].symbol
        /\ \A k \in 1..Len(FillsPut) :
             /\ FillsPut[k].symbol = SignalsPut[k].symbol
             /\ FillsPut[k].timeindex = SignalsPut[k].datetime
        /\ events = <<>> =>
             /\ Processed("SIGNAL") = Len(SignalsPut)
             /\ Processed("ORDER") = Len(SignalsPut)
             /\ Processed("FILL") = Len(SignalsPut)
             /\ Len(OrdersPut) = Len(SignalsPut)
             /\ Len(FillsPut) = Len(SignalsPut))
  /\ [][SignalStep =>
          /\ Len(NewPuts) = 1
          /\ NewPuts[1].type = "ORDER"
          /\ NewPuts[1].symbol = Head(events).symbol
          /\ (Head(events).signal_type = "EXIT"
                => current_positions[Head(events).symbol] # 0)]_vars

\* The channel is empty after an entry pair and an exit pair have each
\* been turned into orders and fills.
C23_Witness ==
  /\ events = <<>>
  /\ Len(SignalsPut) = 4
  /\ SignalsPut[3].signal_type = "EXIT"
  /\ Processed("SIGNAL") = 4
  /\ Processed("ORDER") = 4
  /\ Processed("FILL") = 4

\* How many events of a type have been put since the current bar's
\* MarketEvent.
PutsOfStepOf(type) == Len(SelectSeq(PutsOfStep, LAMBDA e : e.type = type))

\* update_fill is taking its step on a FillEvent.
FillStep ==
  /\ pc = "drain"
  /\ events # <<>>
  /\ Head(events).type = "FILL"
  /\ Len(calls') = Len(calls) + 1

\* C24: the channel never holds more than 2 events; one bar handles at
\* most 7 events, its MarketEvent and at most 2 signals, 2 orders and 2
\* fills; and both orders of a pair are put before either fill of the pair
\* is applied.
C24_ChannelBound ==
  /\ [](/\ Len(events) <= 2
        /\ PutsOfStepOf("MARKET") = 0
        /\ PutsOfStepOf("SIGNAL") <= 2
        /\ PutsOfStepOf("ORDER") <= 2
        /\ PutsOfStepOf("FILL") <= 2
        /\ Len(PutsOfStep) <= 6
        /\ Len(puts) - Len(events) <= 7 * Len(SelectSeq(puts, IsMarket)))
  /\ [][FillStep =>
          /\ Len(OrdersPut) = Len(SignalsPut)
          /\ Len(OrdersPut) % 2 = 0
          /\ Len(Fills) < Len(OrdersPut)]_vars

\* A bar's drain has ended after 7 events: the MarketEvent, two signals,
\* two orders and two fills.
C24_Witness ==
  /\ pc = "drain"
  /\ events = <<>>
  /\ Len(PutsOfStep) = 6
  /\ PutsOfStepOf("FILL") = 2
  /\ Processed("FILL") = 2
====
